---- MODULE Spec2Model ----
(***************************************************************************)
(* Model of custom_components/china_southern_power_grid_stat/sensor.py:    *)
(* the coordinator's refresh cycle (CSGCoordinator._async_update_data),    *)
(* the multi-account fetch it runs on an executor thread (csg_fetch_all),  *)
(* the safe-fetch wrapper, the refresh policy for last-month / last-year   *)
(* data and the per-account snapshot that is built from the remote         *)
(* results.                                                                *)
(***************************************************************************)
EXTENDS Integers, Sequences, FiniteSets, TLC

(***************************************************************************)
(* Values.  Every Python value that reaches a snapshot field is a tagged   *)
(* record, so that a real value never compares equal to a sentinel string. *)
(***************************************************************************)
STATE_UNAVAILABLE == [st |-> "unavailable"]

STATE_UNKNOWN == [st |-> "unknown"]

STATE_UPDATE_UNCHANGED == [st |-> "unchanged"]

\* Python's None
None == [st |-> "None"]

\* a dict key that is not there (DailyRecord.cost in the usage feed)
Absent == [st |-> "absent"]

Val(x) == [st |-> "value", v |-> x]

\* dict.get(key): None for a key that is not there
DictGet(field) == IF field = Absent THEN None ELSE field

\* `x or y` on a number-or-None: None and 0 are falsy
PyOr(x, y) == IF x = None \/ x = Val(0) THEN y ELSE x

\* `not lst` on a by-day value: true of the empty list only (a sentinel is a
\* non-empty string)
PyNotList(x) == x.st = "value" /\ Len(x.v) = 0

(***************************************************************************)
(* Bounds and input domains.                                               *)
(***************************************************************************)
\* longest by-day series a feed returns
MaxLen == 2

\* number of configured electricity accounts, at most
MaxAccounts == 2

\* executor threads that can be alive together (the awaited one and the
\* ones a deadline expiry left behind)
MaxThreads == 2

\* the first days of a month, in which last month's data is refreshed
FIRST_DAYS == 5

JANUARY == 1

\* the least deadline a cycle runs under, in seconds
TIMEOUT_FLOOR == 60

\* most return values _safe_fetch is asked for
MaxArity == 4

\* day-of-month values of the cycles: both sides of the FIRST_DAYS boundary
Days == {FIRST_DAYS, FIRST_DAYS + 1}

\* January and one other month
Months == {JANUARY, JANUARY + 1}

\* cost values of a daily record of the cost feed (0: a day that cost nothing)
CostValues == {0, 3}

\* kwh of a daily record, as the usage feed and as the cost feed report it
\* (the two feeds may disagree)
FeedKwh == [usage |-> 1, cost |-> 2]

(***************************************************************************)
(* Remote Data Source (csg_client, consumed at its interface): an          *)
(* operation returns its result or raises.                                 *)
(***************************************************************************)
Ok(ret) == [kind |-> "ok", ret |-> ret]

Raises(kind) == [kind |-> kind, ret |-> <<>>]

\* a date of the month ym ("this" or "last"), day d
Date(ym, d) == [ym |-> ym, d |-> d]

\* by-day series of the usage feed: days 1..n of the month, no cost
UsageSeries(ym, n) == [i \in 1..n |-> [date |-> Date(ym, i), kwh |-> FeedKwh.usage, cost |-> Absent]]

\* by-day series of the cost feed: days 1..Len(costs) of this month
CostSeries(costs) ==
    [i \in 1..Len(costs) |-> [date |-> Date("this", i), kwh |-> FeedKwh.cost, cost |-> Val(costs[i])]]

\* all sequences over S of length 0..n
SeqsUpTo(S, n) == UNION {[1..k -> S] : k \in 0..n}

\* a ladder sub-field: a value, or null although the call succeeded
LadderInfos ==
    [ladder : {None, Val(2)}, remaining_kwh : {None, Val(40)},
     tariff : {None, Val(58)}, start_date : {None, Val(Date("this", 1))}]

BalArrOutcomes == {Ok(<<Val(11), Val(12)>>), Raises("CSGAPIError")}

YesterdayOutcomes == {Ok(Val(13)), Raises("CSGAPIError")}

\* get_year_month_stats -> (cost, kwh, by_month); y: "this" or "last" year
YearOutcomes(y) ==
    {Ok(<<Val(IF y = "this" THEN 21 ELSE 31), Val(IF y = "this" THEN 22 ELSE 32),
          Val(IF y = "this" THEN 23 ELSE 33)>>),
     Raises("CSGAPIError")}

\* get_month_daily_usage_detail -> (kwh, by_day)
UsageOutcomes(ym) ==
    {Ok(<<Val(n * FeedKwh.usage), Val(UsageSeries(ym, n))>>) : n \in 0..MaxLen}
        \cup {Raises("CSGAPIError")}

\* get_month_daily_cost_detail -> (cost, kwh, ladder, by_day)
CostOutcomes ==
    {Ok(<<Val(50 + Len(cs)), Val(Len(cs) * FeedKwh.cost), Val(l), Val(CostSeries(cs))>>) :
        cs \in SeqsUpTo(CostValues, MaxLen), l \in LadderInfos}
        \cup {Raises("CSGAPIError")}

\* what the remote operations answer for one account in one cycle
Responses ==
    [bal_arr : BalArrOutcomes, yesterday : YesterdayOutcomes,
     this_year : YearOutcomes("this"), usage : UsageOutcomes("this"),
     cost : CostOutcomes, last_year : YearOutcomes("last"),
     last_month : UsageOutcomes("last")]

(***************************************************************************)
(* Safe-Fetch Wrapper.                                                     *)
(***************************************************************************)
\* (mutant) no exception is caught: the except clause is missing
IsCSGAPIErrorNever(kind) == FALSE

\* the classes an exception of class `kind` is an instance of.  The classes
\* of csg_client: a CSGAPIError is a remote-API failure of one call, and
\* NotLoggedIn, the session invalidated, is a failure kind of its own.
Bases(kind) == {kind, "Exception"}

\* the exceptions `except CSGAPIError` catches
IsCSGAPIError(kind) == "CSGAPIError" \in Bases(kind)

\* (mutant) the number of return values is not checked
SafeFetchUnchecked(outcome, num_ret) ==
    LET dflt == IF num_ret = 1 THEN STATE_UNAVAILABLE
                ELSE [i \in 1..num_ret |-> STATE_UNAVAILABLE]
    IN  IF outcome.kind # "ok" /\ ~IsCSGAPIError(outcome.kind)
        THEN [raised |-> outcome.kind, ret |-> dflt]
        ELSE [raised |-> "none", ret |-> IF outcome.kind = "ok" THEN outcome.ret ELSE dflt]

\* _safe_fetch(func, num_ret, ...): [raised, ret]; raised = "none" when it returns
SafeFetch(outcome, num_ret) ==
    LET dflt == IF num_ret = 1 THEN STATE_UNAVAILABLE
                ELSE [i \in 1..num_ret |-> STATE_UNAVAILABLE]
    IN  IF outcome.kind # "ok" /\ ~IsCSGAPIError(outcome.kind)
        THEN [raised |-> outcome.kind, ret |-> dflt]
        ELSE LET ret == IF outcome.kind = "ok" THEN outcome.ret ELSE dflt
             IN  IF num_ret = 1 THEN [raised |-> "none", ret |-> ret]
                 ELSE IF Len(ret) # num_ret THEN [raised |-> "ValueError", ret |-> ret]
                 ELSE [raised |-> "none", ret |-> ret]

\* _safe_fetch for any result of func: sized tells a tuple or list from a
\* value without len(), on which line 367 raises TypeError
SafeFetchAny(outcome, sized, num_ret) ==
    IF outcome.kind = "ok" /\ num_ret # 1 /\ ~sized
    THEN [raised |-> "TypeError", ret |-> outcome.ret]
    ELSE SafeFetch(outcome, num_ret)

(***************************************************************************)
(* Refresh Policy.  marker: the stored DATA_KEY_LAST_UPDATE_DAY, 0 for     *)
(* None (a day-of-month is never 0).                                       *)
(***************************************************************************)
NoMarker == 0

\* (mutant) the first update is not told apart from a later one
RefreshPolicyNoFirstUpdate(marker, this_month, this_day) ==
    [update_last_month |-> this_day <= FIRST_DAYS,
     update_last_year |-> this_month = JANUARY /\ this_day <= FIRST_DAYS /\ marker # this_day]

\* (mutant) `this_day < 5`: the fifth day is left out
RefreshPolicyBeforeFifth(marker, this_month, this_day) ==
    IF marker = NoMarker
    THEN [update_last_month |-> TRUE, update_last_year |-> TRUE]
    ELSE [update_last_month |-> this_day < FIRST_DAYS,
          update_last_year |-> this_month = JANUARY /\ this_day < FIRST_DAYS
                                 /\ marker # this_day]

\* (mutant) `this_day <= 6` for last month: one day too many
RefreshPolicyThroughSixth(marker, this_month, this_day) ==
    IF marker = NoMarker
    THEN [update_last_month |-> TRUE, update_last_year |-> TRUE]
    ELSE [update_last_month |-> this_day <= FIRST_DAYS + 1,
          update_last_year |-> this_month = JANUARY /\ this_day <= FIRST_DAYS
                                 /\ marker # this_day]

\* (mutant) today_first_update_triggered is not consulted
RefreshPolicyEveryCycle(marker, this_month, this_day) ==
    IF marker = NoMarker
    THEN [update_last_month |-> TRUE, update_last_year |-> TRUE]
    ELSE [update_last_month |-> this_day <= FIRST_DAYS,
          update_last_year |-> this_month = JANUARY /\ this_day <= FIRST_DAYS]

RefreshPolicy(marker, this_month, this_day) ==
    IF marker = NoMarker
    THEN [update_last_month |-> TRUE, update_last_year |-> TRUE]
    ELSE LET today_first_update_triggered == marker = this_day
         IN  [update_last_month |-> this_day <= FIRST_DAYS,
              update_last_year |-> this_month = JANUARY /\ this_day <= FIRST_DAYS
                                     /\ ~today_first_update_triggered]

(***************************************************************************)
(* Reconciliation Engine.                                                  *)
(***************************************************************************)
\* (mutant) a null sub-field is passed on as it is
LadderFieldAsIs(x) == x

\* one ladder sub-field: the value, or unavailable when it is null
LadderField(x) == IF x # None THEN x ELSE STATE_UNAVAILABLE

\* (mutant) one null sub-field makes the whole ladder unavailable
LadderExtractAllOrNothing(ladder) ==
    IF ladder # STATE_UNAVAILABLE
       /\ None \notin {ladder.v.ladder, ladder.v.remaining_kwh, ladder.v.tariff}
       /\ ladder.v.start_date # None
    THEN [ladder_stage |-> ladder.v.ladder,
          ladder_remaining_kwh |-> ladder.v.remaining_kwh,
          ladder_tariff |-> ladder.v.tariff,
          ladder_start_date |-> ladder.v.start_date]
    ELSE [ladder_stage |-> STATE_UNAVAILABLE, ladder_remaining_kwh |-> STATE_UNAVAILABLE,
          ladder_tariff |-> STATE_UNAVAILABLE, ladder_start_date |-> STATE_UNAVAILABLE]

LadderExtract(ladder) ==
    IF ladder # STATE_UNAVAILABLE
    THEN [ladder_stage |-> LadderField(ladder.v.ladder),
          ladder_remaining_kwh |-> LadderField(ladder.v.remaining_kwh),
          ladder_tariff |-> LadderField(ladder.v.tariff),
          ladder_start_date |-> LadderField(ladder.v.start_date)]
    ELSE [ladder_stage |-> STATE_UNAVAILABLE, ladder_remaining_kwh |-> STATE_UNAVAILABLE,
          ladder_tariff |-> STATE_UNAVAILABLE, ladder_start_date |-> STATE_UNAVAILABLE]

\* (mutant) the record of the cost series is copied in, not its cost alone
CopyCostRecord(from_usage, from_cost) ==
    [idx \in 1..Len(from_usage) |->
        IF idx <= Len(from_cost) THEN from_cost[idx] ELSE from_usage[idx]]

\* the usage series with the cost of the cost series copied in by index
CopyCost(from_usage, from_cost) ==
    [idx \in 1..Len(from_usage) |->
        IF idx <= Len(from_cost)
        THEN [from_usage[idx] EXCEPT !.cost = from_cost[idx].cost]
        ELSE from_usage[idx]]

\* (mutant) `>` for `>=`: at equal lengths the usage series is the base
MergeThisMonthStrict(kwh_from_usage, by_day_from_usage, kwh_from_cost, by_day_from_cost) ==
    IF by_day_from_cost = STATE_UNAVAILABLE /\ by_day_from_usage = STATE_UNAVAILABLE
    THEN [this_month_by_day |-> STATE_UNAVAILABLE, this_month_kwh |-> STATE_UNAVAILABLE]
    ELSE IF by_day_from_cost = STATE_UNAVAILABLE
    THEN [this_month_by_day |-> by_day_from_usage, this_month_kwh |-> kwh_from_usage]
    ELSE IF kwh_from_usage = STATE_UNAVAILABLE
    THEN [this_month_by_day |-> by_day_from_cost, this_month_kwh |-> kwh_from_cost]
    ELSE IF Len(by_day_from_cost.v) > Len(by_day_from_usage.v)
    THEN [this_month_by_day |-> by_day_from_cost, this_month_kwh |-> kwh_from_cost]
    ELSE [this_month_by_day |-> Val(CopyCost(by_day_from_usage.v, by_day_from_cost.v)),
          this_month_kwh |-> kwh_from_usage]

MergeThisMonth(kwh_from_usage, by_day_from_usage, kwh_from_cost, by_day_from_cost) ==
    IF by_day_from_cost = STATE_UNAVAILABLE /\ by_day_from_usage = STATE_UNAVAILABLE
    THEN [this_month_by_day |-> STATE_UNAVAILABLE, this_month_kwh |-> STATE_UNAVAILABLE]
    ELSE IF by_day_from_cost = STATE_UNAVAILABLE
    THEN [this_month_by_day |-> by_day_from_usage, this_month_kwh |-> kwh_from_usage]
    ELSE IF kwh_from_usage = STATE_UNAVAILABLE
    THEN [this_month_by_day |-> by_day_from_cost, this_month_kwh |-> kwh_from_cost]
    ELSE IF Len(by_day_from_cost.v) >= Len(by_day_from_usage.v)
    THEN [this_month_by_day |-> by_day_from_cost, this_month_kwh |-> kwh_from_cost]
    ELSE [this_month_by_day |-> Val(CopyCost(by_day_from_usage.v, by_day_from_cost.v)),
          this_month_kwh |-> kwh_from_usage]

\* (mutant) the policy alone decides: an empty this-month series forces nothing
FetchLastMonthPolicyOnly(update_last_month, this_month_by_day) ==
    update_last_month \/ this_month_by_day = STATE_UNAVAILABLE

\* whether last month's usage is fetched in this cycle
FetchLastMonth(update_last_month, this_month_by_day) ==
    update_last_month \/ PyNotList(this_month_by_day)
        \/ this_month_by_day = STATE_UNAVAILABLE

\* (mutant) [0] for [-1]
First(s) == s[1]

\* s[-1]
Last(s) == s[Len(s)]

LatestDay(this_month_by_day, last_month_by_day) ==
    LET unavailable == [latest_day_kwh |-> STATE_UNAVAILABLE,
                        latest_day_cost |-> STATE_UNAVAILABLE,
                        latest_day_date |-> STATE_UNAVAILABLE]
    IN  IF this_month_by_day = STATE_UNAVAILABLE /\ last_month_by_day = STATE_UNAVAILABLE
        THEN unavailable
        ELSE IF this_month_by_day # STATE_UNAVAILABLE /\ Len(this_month_by_day.v) >= 1
        THEN [latest_day_kwh |-> Val(Last(this_month_by_day.v).kwh),
              latest_day_cost |-> PyOr(DictGet(Last(this_month_by_day.v).cost), STATE_UNKNOWN),
              latest_day_date |-> Val(Last(this_month_by_day.v).date)]
        ELSE IF last_month_by_day \notin {STATE_UNAVAILABLE, STATE_UPDATE_UNCHANGED}
                /\ Len(last_month_by_day.v) >= 1
        THEN [latest_day_kwh |-> Val(Last(last_month_by_day.v).kwh),
              latest_day_cost |-> STATE_UNKNOWN,
              latest_day_date |-> Val(Last(last_month_by_day.v).date)]
        ELSE unavailable

(***************************************************************************)
(* One pass of the account loop of csg_fetch_all: the remote calls in      *)
(* order, each through _safe_fetch, and the account's snapshot.            *)
(* Result: [raised, snap, calls]: raised is "none" and snap the snapshot,  *)
(* or raised is the exception that left the loop; calls are the remote     *)
(* operations issued.                                                      *)
(***************************************************************************)
NoSnapshot == [st |-> "none"]

Raised(kind, calls) == [raised |-> kind, snap |-> NoSnapshot, calls |-> calls]

\* (mutant) last year's cost is filled from this year's: a slip in the dict
SnapshotLastYearCostSlip(bal_arr, yesterday_kwh, this_year, this_month_cost, merged, ladder, last_year, last_month, latest) ==
    [bal |-> bal_arr[1],
     arr |-> bal_arr[2],
     yesterday_kwh |-> yesterday_kwh,
     latest_day_kwh |-> latest.latest_day_kwh,
     latest_day_cost |-> latest.latest_day_cost,
     latest_day_date |-> latest.latest_day_date,
     this_year_kwh |-> this_year[2],
     this_year_cost |-> this_year[1],
     this_year_by_month |-> this_year[3],
     last_year_kwh |-> last_year[2],
     last_year_cost |-> this_year[1],
     last_year_by_month |-> last_year[3],
     this_month_kwh |-> merged.this_month_kwh,
     this_month_cost |-> this_month_cost,
     ladder_stage |-> ladder.ladder_stage,
     ladder_remaining_kwh |-> ladder.ladder_remaining_kwh,
     ladder_tariff |-> ladder.ladder_tariff,
     ladder_start_date |-> ladder.ladder_start_date,
     this_month_by_day |-> merged.this_month_by_day,
     last_month_kwh |-> last_month[1],
     last_month_by_day |-> last_month[2]]

Snapshot(bal_arr, yesterday_kwh, this_year, this_month_cost, merged, ladder, last_year, last_month, latest) ==
    [bal |-> bal_arr[1],
     arr |-> bal_arr[2],
     yesterday_kwh |-> yesterday_kwh,
     latest_day_kwh |-> latest.latest_day_kwh,
     latest_day_cost |-> latest.latest_day_cost,
     latest_day_date |-> latest.latest_day_date,
     this_year_kwh |-> this_year[2],
     this_year_cost |-> this_year[1],
     this_year_by_month |-> this_year[3],
     last_year_kwh |-> last_year[2],
     last_year_cost |-> last_year[1],
     last_year_by_month |-> last_year[3],
     this_month_kwh |-> merged.this_month_kwh,
     this_month_cost |-> this_month_cost,
     ladder_stage |-> ladder.ladder_stage,
     ladder_remaining_kwh |-> ladder.ladder_remaining_kwh,
     ladder_tariff |-> ladder.ladder_tariff,
     ladder_start_date |-> ladder.ladder_start_date,
     this_month_by_day |-> merged.this_month_by_day,
     last_month_kwh |-> last_month[1],
     last_month_by_day |-> last_month[2]]

\* lines 552-654: last month, latest day, the snapshot
FetchAccountTail(policy, r, f1, f2, f3, f5, merged, last_year, calls) ==
    LET fetch_lm == FetchLastMonth(policy.update_last_month, merged.this_month_by_day)
        f7 == IF fetch_lm THEN SafeFetch(r.last_month, 2)
              ELSE [raised |-> "none",
                    ret |-> <<STATE_UPDATE_UNCHANGED, STATE_UPDATE_UNCHANGED>>]
        calls7 == IF fetch_lm THEN Append(calls, "last_month") ELSE calls
    IN  IF f7.raised # "none" THEN Raised(f7.raised, calls7)
        ELSE [raised |-> "none",
              snap |-> Snapshot(f1.ret, f2.ret, f3.ret, f5.ret[1], merged,
                                LadderExtract(f5.ret[3]), last_year, f7.ret,
                                LatestDay(merged.this_month_by_day, f7.ret[2])),
              calls |-> calls7]

\* lines 464-551: this month's two feeds, the merge, last year
FetchAccountMonth(policy, r, f1, f2, f3) ==
    LET f4 == SafeFetch(r.usage, 2)
        f5 == SafeFetch(r.cost, 4)
        f6 == IF policy.update_last_year THEN SafeFetch(r.last_year, 3)
              ELSE [raised |-> "none",
                    ret |-> <<STATE_UPDATE_UNCHANGED, STATE_UPDATE_UNCHANGED,
                              STATE_UPDATE_UNCHANGED>>]
        c4 == <<"bal_arr", "yesterday", "this_year", "usage">>
        c5 == Append(c4, "cost")
        c6 == IF policy.update_last_year THEN Append(c5, "last_year") ELSE c5
    IN  IF f4.raised # "none" THEN Raised(f4.raised, c4)
        ELSE IF f5.raised # "none" THEN Raised(f5.raised, c5)
        ELSE IF f6.raised # "none" THEN Raised(f6.raised, c6)
        ELSE FetchAccountTail(policy, r, f1, f2, f3, f5,
                              MergeThisMonth(f4.ret[1], f4.ret[2], f5.ret[2], f5.ret[4]),
                              f6.ret, c6)

\* lines 452-654
FetchAccount(policy, r) ==
    LET f1 == SafeFetch(r.bal_arr, 2)
        f2 == SafeFetch(r.yesterday, 1)
        f3 == SafeFetch(r.this_year, 3)
    IN  IF f1.raised # "none" THEN Raised(f1.raised, <<"bal_arr">>)
        ELSE IF f2.raised # "none" THEN Raised(f2.raised, <<"bal_arr", "yesterday">>)
        ELSE IF f3.raised # "none"
        THEN Raised(f3.raised, <<"bal_arr", "yesterday", "this_year">>)
        ELSE FetchAccountMonth(policy, r, f1, f2, f3)

(***************************************************************************)
(* State.                                                                  *)
(***************************************************************************)
VARIABLES
    now,        \* datetime.datetime.now(): [month, day]
    marker,     \* hass.data[DOMAIN][entry_id][DATA_KEY_LAST_UPDATE_DAY]
    accounts,   \* number of accounts in config[CONF_ACCOUNTS]: accounts 1..accounts
    threads,    \* the executor threads running csg_fetch_all, by slot
    awaited,    \* the slot _async_update_data awaits under its deadline, 0: none
    cycle,      \* "Idle", "Fetching", "Succeeded", "Failed"
    reason,     \* the failure kind of a Failed cycle
    data,       \* coordinator.data: the snapshot map last returned
    remote,     \* the Remote Data Source: AnyAnswer, or the answers it has
                \* ready for the next account
    ly_today,   \* cycles of the current calendar day that fetched last year's
                \* data for account 1 (history, counted up to 2)
    update_timeout, \* config[CONF_SETTINGS][CONF_UPDATE_TIMEOUT], seconds
    timeout,    \* the deadline the cycle runs under (async_timeout.timeout)
    warned,     \* the cycle logged "Timeout value too low"
    safe_fetch, \* a call of _safe_fetch taken alone: its arguments and outcome
    read_today, \* a cycle has read the date on the current calendar day (history)
    sensor      \* a CSGBaseSensor of account 1 taken alone, and what it wrote
                \* to the host

vars ==
    <<now, marker, accounts, threads, awaited, cycle, reason, data, remote, ly_today,
      update_timeout, timeout, warned, safe_fetch, read_today, sensor>>

\* the configuration and the variables only _safe_fetch or a sensor taken
\* alone changes
config_vars == <<accounts, update_timeout, safe_fetch, sensor>>

Dates == [month : Months, day : Days]

\* coordinator.data before the first successful cycle
NoData == [st |-> "None"]

NoPolicy == [update_last_month |-> FALSE, update_last_year |-> FALSE]

\* calls: the remote operations issued for the account built last
Free == [pc |-> "free", this_month |-> 0, this_day |-> 0, policy |-> NoPolicy,
         data_ret |-> <<>>, raised |-> "none", calls |-> <<>>]

\* no call of _safe_fetch taken alone
NoCall == [pc |-> "none"]

\* no sensor taken alone
NoSensor == [pc |-> "none"]

Slots == 1..MaxThreads

Live(t) == threads[t].pc \in {"start", "loop"}

AnyAnswer == [st |-> "any"]

Init ==
    /\ now \in Dates
    /\ marker = NoMarker
    /\ accounts \in 0..MaxAccounts
    /\ threads = [t \in Slots |-> Free]
    /\ awaited = 0
    /\ cycle = "Idle"
    /\ reason = ""
    /\ data = NoData
    /\ remote = AnyAnswer
    /\ ly_today = 0
    /\ update_timeout = TIMEOUT_FLOOR
    /\ timeout = 0
    /\ warned = FALSE
    /\ safe_fetch = NoCall
    /\ read_today = FALSE
    /\ sensor = NoSensor

(***************************************************************************)
(* The answers of the remote side in a cycle: every call succeeds, or one  *)
(* call raises past _safe_fetch (the first of an account, or the last).    *)
(***************************************************************************)
RespAllOk ==
    [bal_arr |-> Ok(<<Val(11), Val(12)>>), yesterday |-> Ok(Val(13)),
     this_year |-> Ok(<<Val(21), Val(22), Val(23)>>),
     usage |-> Ok(<<Val(FeedKwh.usage), Val(UsageSeries("this", 1))>>),
     cost |-> Ok(<<Val(51), Val(FeedKwh.cost),
                   Val([ladder |-> Val(2), remaining_kwh |-> Val(40), tariff |-> Val(58),
                        start_date |-> Val(Date("this", 1))]),
                   Val(CostSeries(<<3>>))>>),
     last_year |-> Ok(<<Val(31), Val(32), Val(33)>>),
     last_month |-> Ok(<<Val(FeedKwh.usage), Val(UsageSeries("last", 1))>>)]

FatalKinds == {"NotLoggedIn", "Exception"}

CycleResponses ==
    {RespAllOk}
        \cup {[RespAllOk EXCEPT !.last_month = Raises(k)] : k \in FatalKinds}
        \cup {[RespAllOk EXCEPT !.bal_arr = Raises(k)] : k \in FatalKinds}

\* what the remote side may answer for the next account
RemoteAnswers == IF remote = AnyAnswer THEN CycleResponses ELSE {remote}

(***************************************************************************)
(* csg_fetch_all, on an executor thread.                                   *)
(***************************************************************************)
\* a thread that returns or raises: its awaiter picks the result up; the
\* result of a thread nobody awaits any more is dropped
Finish(t, rec) == IF t = awaited THEN rec ELSE Free

\* (mutant) the empty account list is not checked: the job logs in and runs
\* its loop over no account
FetchBeginAlwaysLogin(t) ==
    /\ threads[t].pc = "start"
    /\ \E e \in {"none", "NotLoggedIn", "CSGAPIError", "Exception"} :
            threads' = [threads EXCEPT ![t] =
                IF e # "none"
                THEN Finish(t, [Free EXCEPT !.pc = "raised", !.raised = e])
                ELSE [Free EXCEPT !.pc = "loop",
                                  !.this_month = now.month,
                                  !.this_day = now.day,
                                  !.policy = RefreshPolicy(marker, now.month, now.day)]]
    /\ read_today' = (read_today \/ threads'[t].pc = "loop")
    /\ UNCHANGED <<now, marker, config_vars, awaited, cycle, reason, data, remote, ly_today,
                   timeout, warned>>

\* lines 374-449: the empty account list, the login, the date and the policy
FetchBegin(t) ==
    /\ threads[t].pc = "start"
    /\ IF accounts = 0
       THEN threads' = [threads EXCEPT ![t] = Finish(t, [Free EXCEPT !.pc = "returned"])]
       ELSE \E e \in {"none", "NotLoggedIn", "CSGAPIError", "Exception"} :
                threads' = [threads EXCEPT ![t] =
                    IF e # "none"
                    THEN Finish(t, [Free EXCEPT !.pc = "raised", !.raised = e])
                    ELSE [Free EXCEPT !.pc = "loop",
                                      !.this_month = now.month,
                                      !.this_day = now.day,
                                      !.policy = RefreshPolicy(marker, now.month, now.day)]]
    /\ read_today' = (read_today \/ threads'[t].pc = "loop")
    /\ UNCHANGED <<now, marker, config_vars, awaited, cycle, reason, data, remote, ly_today,
                   timeout, warned>>

\* whether this pass of the loop counts in ly_today
CountsLastYear(t, account_number, res) ==
    /\ account_number = 1
    /\ \E i \in 1..Len(res.calls) : res.calls[i] = "last_year"
    /\ threads[t].this_month = now.month /\ threads[t].this_day = now.day

\* lines 451-654: the next account of the loop
FetchOne(t) ==
    /\ threads[t].pc = "loop"
    /\ Len(threads[t].data_ret) < accounts
    /\ \E r \in RemoteAnswers :
        LET res == FetchAccount(threads[t].policy, r)
            account_number == Len(threads[t].data_ret) + 1
        IN  /\ threads' = [threads EXCEPT ![t] =
                    IF res.raised # "none"
                    THEN Finish(t, [Free EXCEPT !.pc = "raised", !.raised = res.raised])
                    ELSE [@ EXCEPT !.data_ret = Append(@, res.snap), !.calls = res.calls]]
            /\ ly_today' = IF CountsLastYear(t, account_number, res) /\ ly_today < 2
                           THEN ly_today + 1 ELSE ly_today
    /\ UNCHANGED <<now, marker, config_vars, awaited, cycle, reason, data, remote,
                   timeout, warned, read_today>>

\* lines 655-659: after the loop, the marker and the return
FetchDone(t) ==
    /\ threads[t].pc = "loop"
    /\ Len(threads[t].data_ret) = accounts
    /\ marker' = threads[t].this_day
    /\ threads' = [threads EXCEPT ![t] = Finish(t, [@ EXCEPT !.pc = "returned"])]
    /\ UNCHANGED <<now, config_vars, awaited, cycle, reason, data, remote, ly_today,
                   timeout, warned, read_today>>

(***************************************************************************)
(* _async_update_data, on the event loop.                                  *)
(***************************************************************************)
\* the lowest free slot of the executor
FreeSlot ==
    CHOOSE t \in Slots :
        threads[t].pc = "free" /\ \A u \in Slots : threads[u].pc = "free" => t <= u

\* (mutant) `timeout <= 60`: a timeout equal to the floor is warned about
StartCycleWarnAtFloor ==
    /\ awaited = 0
    /\ \E t \in Slots : threads[t].pc = "free"
    /\ threads' = [threads EXCEPT ![FreeSlot] = [Free EXCEPT !.pc = "start"]]
    /\ awaited' = FreeSlot
    /\ cycle' = "Fetching"
    /\ reason' = ""
    /\ warned' = (update_timeout <= TIMEOUT_FLOOR)
    /\ timeout' = IF update_timeout <= TIMEOUT_FLOOR THEN TIMEOUT_FLOOR ELSE update_timeout
    /\ UNCHANGED <<now, marker, config_vars, data, remote, ly_today, read_today>>

\* lines 661-671: a tick or an on-demand refresh starts a cycle; the
\* coordinator runs one _async_update_data at a time
StartCycle ==
    /\ awaited = 0
    /\ \E t \in Slots : threads[t].pc = "free"
    /\ threads' = [threads EXCEPT ![FreeSlot] = [Free EXCEPT !.pc = "start"]]
    /\ awaited' = FreeSlot
    /\ cycle' = "Fetching"
    /\ reason' = ""
    /\ warned' = (update_timeout < TIMEOUT_FLOOR)
    /\ timeout' = IF update_timeout < TIMEOUT_FLOOR THEN TIMEOUT_FLOOR ELSE update_timeout
    /\ UNCHANGED <<now, marker, config_vars, data, remote, ly_today, read_today>>

\* lines 671-677: the executor job returned within the deadline
CycleReturn ==
    /\ awaited # 0
    /\ threads[awaited].pc = "returned"
    /\ data' = Val(threads[awaited].data_ret)
    /\ cycle' = "Succeeded"
    /\ threads' = [threads EXCEPT ![awaited] = Free]
    /\ awaited' = 0
    /\ UNCHANGED <<now, marker, config_vars, reason, remote, ly_today, timeout, warned,
                   read_today>>

\* (mutant) the clause `except NotLoggedIn` is missing
FailureReasonNoSession(kind) ==
    IF "CSGAPIError" \in Bases(kind) THEN "remote-API error"
    ELSE IF "TimeoutError" \in Bases(kind) THEN "timeout"
    ELSE "unexpected-error"

\* lines 678-687: the reason of the UpdateFailed raised for an exception, by
\* the first except clause that matches
FailureReason(kind) ==
    IF "NotLoggedIn" \in Bases(kind) THEN "session-invalid"
    ELSE IF "CSGAPIError" \in Bases(kind) THEN "remote-API error"
    ELSE IF "TimeoutError" \in Bases(kind) THEN "timeout"
    ELSE "unexpected-error"

\* lines 678-687: the executor job raised
CycleRaise ==
    /\ awaited # 0
    /\ threads[awaited].pc = "raised"
    /\ cycle' = "Failed"
    /\ reason' = FailureReason(threads[awaited].raised)
    /\ threads' = [threads EXCEPT ![awaited] = Free]
    /\ awaited' = 0
    /\ UNCHANGED <<now, marker, config_vars, data, remote, ly_today, timeout, warned,
                   read_today>>

\* lines 669-671, 682-683: the deadline expires while the job runs: the await
\* is cancelled, the executor thread is not.  The deadline is a minute or
\* more and expires only on a job that waits for the remote side (the login,
\* the fetches of an account): with no account the job returns at once.
CycleTimeout ==
    /\ awaited # 0
    /\ Live(awaited)
    /\ accounts > 0
    /\ cycle' = "Failed"
    /\ reason' = FailureReason("TimeoutError")
    /\ awaited' = 0
    /\ UNCHANGED <<now, marker, config_vars, threads, data, remote, ly_today,
                   timeout, warned, read_today>>

\* the clock reaches another calendar day (not one a running thread started on)
NextDay ==
    /\ \E d \in Dates :
        /\ d # now
        /\ \A t \in Slots :
            Live(t) => ~(threads[t].this_month = d.month /\ threads[t].this_day = d.day)
        /\ now' = d
    /\ ly_today' = 0
    /\ read_today' = FALSE
    /\ UNCHANGED <<marker, config_vars, threads, awaited, cycle, reason, data, remote,
                   timeout, warned>>

Next ==
    \/ StartCycle
    \/ \E t \in Slots : FetchBegin(t)
    \/ \E t \in Slots : FetchOne(t)
    \/ \E t \in Slots : FetchDone(t)
    \/ CycleReturn
    \/ CycleRaise
    \/ CycleTimeout
    \/ NextDay

Spec == Init /\ [][Next]_vars

(***************************************************************************)
(* The Refresh Policy over the whole calendar: a cycle that is about to    *)
(* read the date and the marker, for every date and every marker an        *)
(* earlier cycle can have left.                                            *)
(***************************************************************************)
AllDates == [month : 1..12, day : 1..31]

AwaitedAt(pc) == [t \in Slots |-> IF t = 1 THEN [Free EXCEPT !.pc = pc] ELSE Free]

InitPolicy ==
    /\ now \in AllDates
    /\ marker \in {NoMarker} \cup 1..31
    /\ accounts = 1
    /\ threads = AwaitedAt("start")
    /\ awaited = 1
    /\ cycle = "Fetching"
    /\ reason = ""
    /\ data = NoData
    /\ remote = AnyAnswer
    /\ ly_today = 0
    /\ update_timeout = TIMEOUT_FLOOR
    /\ timeout = TIMEOUT_FLOOR
    /\ warned = FALSE
    /\ safe_fetch = NoCall
    /\ read_today = FALSE
    /\ sensor = NoSensor

NextPolicy == FetchBegin(1)

SpecPolicy == InitPolicy /\ [][NextPolicy]_vars

(***************************************************************************)
(* The account loop body over all the answers of the remote side: a cycle  *)
(* in its loop, under each decision of the policy, and the remote side     *)
(* with its answers for the account ready.                                 *)
(***************************************************************************)
\* one (marker, date) for each decision the policy takes
PolicyCases ==
    {[marker |-> NoMarker, month |-> JANUARY + 1, day |-> FIRST_DAYS],
     [marker |-> FIRST_DAYS, month |-> JANUARY + 1, day |-> FIRST_DAYS],
     [marker |-> FIRST_DAYS, month |-> JANUARY + 1, day |-> FIRST_DAYS + 1]}

InitBuild ==
    /\ \E c \in PolicyCases :
        /\ now = [month |-> c.month, day |-> c.day]
        /\ marker = c.marker
        /\ threads = [AwaitedAt("loop") EXCEPT
                        ![1].this_month = c.month,
                        ![1].this_day = c.day,
                        ![1].policy = RefreshPolicy(c.marker, c.month, c.day)]
    /\ accounts = 1
    /\ awaited = 1
    /\ cycle = "Fetching"
    /\ reason = ""
    /\ data = NoData
    /\ remote \in Responses
    /\ ly_today = 0
    /\ update_timeout = TIMEOUT_FLOOR
    /\ timeout = TIMEOUT_FLOOR
    /\ warned = FALSE
    /\ safe_fetch = NoCall
    /\ read_today = FALSE
    /\ sensor = NoSensor

NextBuild ==
    \/ FetchOne(1)
    \/ FetchDone(1)
    \/ CycleReturn

SpecBuild == InitBuild /\ [][NextBuild]_vars

(***************************************************************************)
(* _safe_fetch taken alone: one call, for every result of func (a tuple of *)
(* any length, a value that is no tuple, an exception) and every number of *)
(* return values asked for.                                                *)
(***************************************************************************)
\* what a slot of a returned tuple holds
SlotValues == {Val(7), None}

\* what func does: [outcome, sized]
FuncOutcomes ==
    {[outcome |-> Ok(ret), sized |-> TRUE] : ret \in SeqsUpTo(SlotValues, MaxArity + 1)}
        \cup {[outcome |-> Raises(kind), sized |-> TRUE] :
                kind \in {"CSGAPIError", "NotLoggedIn", "Exception"}}

\* func returning a value that is no tuple
ScalarOutcomes == {[outcome |-> Ok(v), sized |-> FALSE] : v \in SlotValues}

InitSafeFetch ==
    /\ now = [month |-> JANUARY, day |-> FIRST_DAYS]
    /\ marker = NoMarker
    /\ accounts = 1
    /\ threads = [t \in Slots |-> Free]
    /\ awaited = 0
    /\ cycle = "Idle"
    /\ reason = ""
    /\ data = NoData
    /\ remote = AnyAnswer
    /\ ly_today = 0
    /\ update_timeout = TIMEOUT_FLOOR
    /\ timeout = TIMEOUT_FLOOR
    /\ warned = FALSE
    /\ read_today = FALSE
    /\ sensor = NoSensor
    /\ \E num_ret \in 1..MaxArity :
        \/ \E f \in FuncOutcomes :
            safe_fetch = [pc |-> "call", func |-> f.outcome, sized |-> f.sized,
                          num_ret |-> num_ret]
        \/ \E f \in ScalarOutcomes :
            safe_fetch = [pc |-> "call", func |-> f.outcome, sized |-> f.sized,
                          num_ret |-> num_ret]

\* lines 349-371: the call returns ret or raises
SafeFetchCall ==
    /\ safe_fetch.pc = "call"
    /\ LET res == SafeFetchAny(safe_fetch.func, safe_fetch.sized, safe_fetch.num_ret)
       IN  safe_fetch' =
            IF res.raised # "none"
            THEN [pc |-> "raised", func |-> safe_fetch.func, sized |-> safe_fetch.sized,
                  num_ret |-> safe_fetch.num_ret, raised |-> res.raised]
            ELSE [pc |-> "returned", func |-> safe_fetch.func, sized |-> safe_fetch.sized,
                  num_ret |-> safe_fetch.num_ret, ret |-> res.ret,
                  ret_sized |-> IF safe_fetch.func.kind = "ok" THEN safe_fetch.sized
                                ELSE safe_fetch.num_ret # 1]
    /\ UNCHANGED <<now, marker, accounts, threads, awaited, cycle, reason, data, remote,
                   ly_today, update_timeout, timeout, warned, read_today, sensor>>

NextSafeFetch == SafeFetchCall

SpecSafeFetch == InitSafeFetch /\ [][NextSafeFetch]_vars

(***************************************************************************)
(* The deadline of a cycle, for every configured timeout on both sides of  *)
(* the floor.                                                              *)
(***************************************************************************)
InitDeadline ==
    /\ now = [month |-> JANUARY, day |-> FIRST_DAYS]
    /\ marker = NoMarker
    /\ accounts = 1
    /\ threads = [t \in Slots |-> Free]
    /\ awaited = 0
    /\ cycle = "Idle"
    /\ reason = ""
    /\ data = NoData
    /\ remote = AnyAnswer
    /\ ly_today = 0
    /\ update_timeout \in 1..(2 * TIMEOUT_FLOOR)
    /\ timeout = 0
    /\ warned = FALSE
    /\ safe_fetch = NoCall
    /\ read_today = FALSE
    /\ sensor = NoSensor

NextDeadline ==
    \/ StartCycle
    \/ FetchBegin(1)
    \/ CycleRaise
    \/ CycleTimeout

SpecDeadline == InitDeadline /\ [][NextDeadline]_vars

(***************************************************************************)
(* Properties.                                                             *)
(***************************************************************************)
SnapshotFields == DOMAIN FetchAccount(NoPolicy, RespAllOk).snap

HasUnchanged(snap) == \E f \in SnapshotFields : snap[f] = STATE_UPDATE_UNCHANGED

\* thread t takes the policy decision in this step
Decides(t) == threads[t].pc = "start" /\ threads'[t].pc = "loop"

BothTrue == [update_last_month |-> TRUE, update_last_year |-> TRUE]

\* C1: the first snapshot map ever published (coordinator.data set for the
\* first time) carries "unchanged" in no field of any account, whatever
\* cycles failed before it.
C1_FirstSnapshotHasNoUnchanged ==
    [][(data = NoData /\ data' # NoData)
        => \A a \in 1..Len(data'.v) : ~HasUnchanged(data'.v[a])]_vars

\* C2: the day marker is written only by the cycle that is awaited and
\* that then ends Succeeded: no step of a cycle that ended Failed (by
\* deadline or exception) changes it.
C2_MarkerWrittenOnlyBySucceededCycle ==
    [][marker' # marker => (awaited # 0 /\ threads'[awaited].pc = "returned")]_vars

\* C3: when a cycle over a non-empty account list ends Succeeded, the marker
\* is the day-of-month that cycle read at its start; and the marker is only
\* written by a thread that has built the snapshot of every configured
\* account.
C3_MarkerIsCycleDayOnSuccess ==
    [][/\ (cycle = "Fetching" /\ cycle' = "Succeeded" /\ accounts > 0)
            => marker' = threads[awaited].this_day
       /\ marker' # marker
            => \E t \in Slots : /\ threads[t].pc = "loop"
                                /\ Len(threads[t].data_ret) = accounts
                                /\ marker' = threads[t].this_day]_vars

\* C4: at no time are two executions of csg_fetch_all in flight together.
C4_OneFetchInFlight == Cardinality({t \in Slots : Live(t)}) <= 1

ThreeStates == {"value", "unavailable", "unchanged"}

\* C5 (as claimed): every field of every published account snapshot is a
\* concrete value, "unavailable" or "unchanged".
C5_EveryFieldInThreeStates ==
    data # NoData
        => \A a \in 1..Len(data.v) : \A f \in SnapshotFields : data.v[a][f].st \in ThreeStates

\* C5 (amended): every field of every published account snapshot is a
\* concrete value, "unavailable" or "unchanged", except latest-day cost,
\* which is one of these or "unknown"; no field is null or absent.
C5_ThreeStatesOrUnknownCost ==
    data # NoData
        => \A a \in 1..Len(data.v) : \A f \in SnapshotFields :
                \/ data.v[a][f].st \in ThreeStates
                \/ f = "latest_day_cost" /\ data.v[a][f] = STATE_UNKNOWN

\* a published snapshot whose latest-day cost is "unknown" and whose ladder
\* had a null tariff beside a stage
C5_Witness ==
    /\ data # NoData /\ Len(data.v) = 1
    /\ data.v[1].latest_day_cost = STATE_UNKNOWN
    /\ data.v[1].ladder_tariff = STATE_UNAVAILABLE
    /\ data.v[1].ladder_stage.st = "value"
    /\ data.v[1].last_year_kwh = STATE_UPDATE_UNCHANGED

\* C6: a cycle that finds no marker sets update_last_month and
\* update_last_year, on every date.
C6_FirstCycleUpdatesBoth ==
    [][\A t \in Slots : (Decides(t) /\ marker = NoMarker)
            => threads'[t].policy = BothTrue]_vars

\* a cycle without marker, past the first days of a month other than
\* January, that has set both flags
C6_Witness ==
    /\ marker = NoMarker /\ threads[1].pc = "loop"
    /\ threads[1].this_day > FIRST_DAYS /\ threads[1].this_month # JANUARY
    /\ threads[1].policy = BothTrue

LastMonthOnly == [update_last_month |-> TRUE, update_last_year |-> FALSE]

\* C7 (as claimed): a cycle on day 1..5 of a month other than January sets
\* update_last_month and not update_last_year.
C7_FirstDaysOutsideJanuary ==
    [][\A t \in Slots : (Decides(t) /\ now.day <= FIRST_DAYS /\ now.month # JANUARY)
            => threads'[t].policy = LastMonthOnly]_vars

\* C7 (amended): a cycle that finds a marker, on day 1..5 of a month other
\* than January, sets update_last_month and not update_last_year.
C7_FirstDaysOutsideJanuaryWithMarker ==
    [][\A t \in Slots :
        (Decides(t) /\ marker # NoMarker /\ now.day <= FIRST_DAYS /\ now.month # JANUARY)
            => threads'[t].policy = LastMonthOnly]_vars

C7_Witness ==
    /\ marker # NoMarker /\ threads[1].pc = "loop"
    /\ threads[1].this_day = FIRST_DAYS /\ threads[1].this_month # JANUARY
    /\ threads[1].policy = LastMonthOnly

\* C8 (as claimed): a cycle on a day after the fifth sets neither flag.
C8_AfterFirstDays ==
    [][\A t \in Slots : (Decides(t) /\ now.day > FIRST_DAYS)
            => threads'[t].policy = NoPolicy]_vars

\* C8 (amended): a cycle that finds a marker, on a day after the fifth, sets
\* neither flag, in every month.
C8_AfterFirstDaysWithMarker ==
    [][\A t \in Slots : (Decides(t) /\ marker # NoMarker /\ now.day > FIRST_DAYS)
            => threads'[t].policy = NoPolicy]_vars

C8_Witness ==
    /\ marker # NoMarker /\ threads[1].pc = "loop"
    /\ threads[1].this_day = FIRST_DAYS + 1 /\ threads[1].this_month = JANUARY
    /\ threads[1].policy = NoPolicy

OutcomesOf ==
    [bal_arr |-> BalArrOutcomes, yesterday |-> YesterdayOutcomes,
     this_year |-> YearOutcomes("this"), usage |-> UsageOutcomes("this"),
     cost |-> CostOutcomes, last_year |-> YearOutcomes("last"),
     last_month |-> UsageOutcomes("last")]

\* the operations that were called and failed with a classified error
FailedOps(policy, r) ==
    LET calls == FetchAccount(policy, r).calls
    IN  {calls[i] : i \in {j \in 1..Len(calls) : r[calls[j]].kind = "CSGAPIError"}}

\* the answers r with operation op succeeding instead
Succeeding(r, op) == {[r EXCEPT ![op] = o] : o \in {x \in OutcomesOf[op] : x.kind = "ok"}}

\* the snapshot fields assigned from the result of an operation
DirectOutputs(op) ==
    CASE op = "bal_arr" -> {"bal", "arr"}
      [] op = "yesterday" -> {"yesterday_kwh"}
      [] op = "this_year" -> {"this_year_cost", "this_year_kwh", "this_year_by_month"}
      [] op = "usage" -> {}
      [] op = "cost" -> {"this_month_cost", "ladder_stage", "ladder_remaining_kwh",
                         "ladder_tariff", "ladder_start_date"}
      [] op = "last_year" -> {"last_year_cost", "last_year_kwh", "last_year_by_month"}
      [] op = "last_month" -> {"last_month_kwh", "last_month_by_day"}

LatestDayFields == {"latest_day_kwh", "latest_day_cost", "latest_day_date"}

\* the fields computed from the merged this-month series
MergedFields ==
    {"this_month_kwh", "this_month_by_day", "last_month_kwh", "last_month_by_day"}
        \cup LatestDayFields

\* the fields the failure of an operation can reach
Affected(op) ==
    DirectOutputs(op)
        \cup (IF op \in {"usage", "cost"} THEN MergedFields
              ELSE IF op = "last_month" THEN LatestDayFields ELSE {})

\* thread 1 has built the snapshot of the account with exactly op failing
BuiltWithOneFailure(op) ==
    /\ remote # AnyAnswer
    /\ threads[1].pc = "loop" /\ Len(threads[1].data_ret) = 1
    /\ FailedOps(threads[1].policy, remote) = {op}

\* C10 (as claimed): with exactly one operation failing with a classified
\* error the cycle does not fail, and every field of the snapshot is either
\* "unavailable" (an output of that operation) or has the value it would
\* have had if the operation had succeeded.
C10_OneFailureIsolated ==
    /\ threads[1].pc # "raised"
    /\ \A op \in DOMAIN OutcomesOf : BuiltWithOneFailure(op)
        => \A alt \in Succeeding(remote, op) : \A f \in SnapshotFields :
                \/ threads[1].data_ret[1][f] = STATE_UNAVAILABLE
                \/ threads[1].data_ret[1][f] = FetchAccount(threads[1].policy, alt).snap[f]

\* C10 (amended): with exactly one operation failing with a classified
\* error the cycle does not fail, the fields assigned from that operation's
\* result are "unavailable", and every other field has the value it would
\* have had if the operation had succeeded, except the fields computed from
\* the merged this-month series (this-month kwh and by-day, latest day, and
\* the last-month fields, fetched or "unchanged") when one of the two
\* this-month feeds failed, and the latest-day fields when the last-month
\* fetch failed.
C10_OneFailureIsolatedOutsideMerge ==
    /\ threads[1].pc # "raised"
    /\ \A op \in DOMAIN OutcomesOf : BuiltWithOneFailure(op)
        => /\ \A f \in DirectOutputs(op) : threads[1].data_ret[1][f] = STATE_UNAVAILABLE
           /\ \A alt \in Succeeding(remote, op) : \A f \in SnapshotFields \ Affected(op) :
                threads[1].data_ret[1][f] = FetchAccount(threads[1].policy, alt).snap[f]

\* the cost feed alone failed, the usage feed has no day yet: last month is
\* fetched although the policy said not to
C10_Witness ==
    /\ BuiltWithOneFailure("cost")
    /\ ~threads[1].policy.update_last_month
    /\ threads[1].data_ret[1].this_month_cost = STATE_UNAVAILABLE
    /\ threads[1].data_ret[1].last_month_kwh.st = "value"
    /\ threads[1].data_ret[1].bal.st = "value"

(***************************************************************************)
(* C11: the Safe-Fetch Wrapper and the number of values it returns.        *)
(***************************************************************************)
\* the number of slots of what the call returned: a value that is no tuple
\* is one slot
ReturnedArity == IF safe_fetch.ret_sized THEN Len(safe_fetch.ret) ELSE 1

\* the number of slots of what func returned
FuncArity == IF safe_fetch.sized THEN Len(safe_fetch.func.ret) ELSE 1

Sentinels(n) == [i \in 1..n |-> STATE_UNAVAILABLE]

\* C11 (as claimed): for every num_ret >= 1 a call that returns returns
\* exactly num_ret slots, and a call raises when func fails with an error
\* that is not a remote-API error or returns another number of slots.
C11_NeverWrongArity ==
    /\ safe_fetch.pc = "returned" => ReturnedArity = safe_fetch.num_ret
    /\ (safe_fetch.pc # "call" /\ safe_fetch.func.kind = "ok"
            /\ FuncArity # safe_fetch.num_ret)
        => safe_fetch.pc = "raised"

\* C11 (amended): for num_ret >= 2 a call that returns returns exactly
\* num_ret slots (func's own result, or num_ret sentinels on a remote-API
\* error) and a result of func of any other size raises (ValueError, or
\* TypeError for a value without a length); for num_ret = 1 the call
\* returns func's result as it is, of whatever size, or one sentinel on a
\* remote-API error.  Any other exception of func is raised on.
C11_ArityCheckedFromTwo ==
    /\ safe_fetch.pc = "returned" =>
        /\ safe_fetch.num_ret >= 2
            => safe_fetch.ret_sized /\ Len(safe_fetch.ret) = safe_fetch.num_ret
        /\ IF safe_fetch.func.kind = "ok" THEN safe_fetch.ret = safe_fetch.func.ret
           ELSE /\ safe_fetch.func.kind = "CSGAPIError"
                /\ IF safe_fetch.num_ret = 1 THEN safe_fetch.ret = STATE_UNAVAILABLE
                   ELSE safe_fetch.ret = Sentinels(safe_fetch.num_ret)
    /\ safe_fetch.pc = "raised" =>
        IF safe_fetch.func.kind = "ok"
        THEN /\ safe_fetch.num_ret >= 2 /\ FuncArity # safe_fetch.num_ret
             /\ safe_fetch.raised = IF safe_fetch.sized THEN "ValueError" ELSE "TypeError"
        ELSE safe_fetch.func.kind # "CSGAPIError" /\ safe_fetch.raised = safe_fetch.func.kind
    /\ (safe_fetch.pc # "call" /\ safe_fetch.func.kind = "ok" /\ safe_fetch.num_ret >= 2
            /\ FuncArity # safe_fetch.num_ret)
        => safe_fetch.pc = "raised"

\* func returned one slot more than asked for, and the call raised ValueError
C11_Witness ==
    /\ safe_fetch.pc = "raised" /\ safe_fetch.raised = "ValueError"
    /\ safe_fetch.func.kind = "ok" /\ safe_fetch.sized
    /\ safe_fetch.num_ret = 2 /\ Len(safe_fetch.func.ret) = 3

(***************************************************************************)
(* C12: how a cycle fails.                                                 *)
(***************************************************************************)
\* the failure kind the spec gives each exception
TypedReason(kind) ==
    CASE kind = "NotLoggedIn" -> "session-invalid"
      [] kind = "CSGAPIError" -> "remote-API error"
      [] kind = "TimeoutError" -> "timeout"
      [] OTHER -> "unexpected-error"

\* the operations of an account, in call order, up to the first that raises
\* an error that is not a remote-API error
FatalOp(r) ==
    LET order == <<"bal_arr", "yesterday", "this_year", "usage", "cost", "last_year",
                   "last_month">>
        fatal == {i \in 1..Len(order) : r[order[i]].kind \notin {"ok", "CSGAPIError"}}
    IN  IF fatal = {} THEN "none"
        ELSE r[order[CHOOSE i \in fatal : \A j \in fatal : i <= j]].kind

\* C12: a cycle leaves Fetching either Succeeded, on the return of its
\* fetch, or Failed with the reason of what ended it: "timeout" on the
\* deadline, "session-invalid" on NotLoggedIn, "remote-API error" on a
\* CSGAPIError that escaped the fetch, "unexpected-error" on anything else;
\* a Failed cycle leaves the published snapshot map as it was; and a
\* NotLoggedIn (or other fatal error) of a remote operation in the account
\* loop leaves the loop as that exception.
C12_FailedWithTypedReason ==
    [][/\ (cycle = "Fetching" /\ cycle' # "Fetching") =>
            \/ /\ threads[awaited].pc = "returned"
               /\ cycle' = "Succeeded"
            \/ /\ threads[awaited].pc = "raised"
               /\ cycle' = "Failed" /\ data' = data
               /\ reason' = TypedReason(threads[awaited].raised)
            \/ /\ Live(awaited)
               /\ cycle' = "Failed" /\ data' = data
               /\ reason' = TypedReason("TimeoutError")
       /\ \A r \in CycleResponses :
            FatalOp(r) # "none" => FetchAccount(BothTrue, r).raised = FatalOp(r)]_vars

\* a cycle failed as session-invalid after an earlier cycle had published
C12_Witness ==
    /\ cycle = "Failed" /\ reason = "session-invalid"
    /\ data # NoData /\ awaited = 0

(***************************************************************************)
(* C13..C18: the snapshot thread 1 built for the account, against the      *)
(* answers the remote side gave.                                           *)
(***************************************************************************)
\* thread 1 has built the snapshot of the account
Built == remote # AnyAnswer /\ Len(threads[1].data_ret) = 1

BuiltSnap == threads[1].data_ret[1]

Failed(op) == remote[op].kind # "ok"

\* the by-day series and the kwh total of the two this-month feeds
UsageByDay == remote.usage.ret[2]

UsageKwh == remote.usage.ret[1]

CostByDay == remote.cost.ret[4]

CostKwh == remote.cost.ret[2]

\* C13: this-month base selection: both feeds unavailable: series and kwh
\* unavailable; one feed available: its series and its kwh total; both
\* available and the cost series at least as long as the usage series: the
\* cost series as it is and the cost feed's kwh total.
C13_BaseSelection ==
    Built =>
        /\ (Failed("usage") /\ Failed("cost"))
            => /\ BuiltSnap.this_month_by_day = STATE_UNAVAILABLE
               /\ BuiltSnap.this_month_kwh = STATE_UNAVAILABLE
        /\ (~Failed("usage") /\ Failed("cost"))
            => /\ BuiltSnap.this_month_by_day = UsageByDay
               /\ BuiltSnap.this_month_kwh = UsageKwh
        /\ (Failed("usage") /\ ~Failed("cost"))
            => /\ BuiltSnap.this_month_by_day = CostByDay
               /\ BuiltSnap.this_month_kwh = CostKwh
        /\ (~Failed("usage") /\ ~Failed("cost") /\ Len(CostByDay.v) >= Len(UsageByDay.v))
            => /\ BuiltSnap.this_month_by_day = CostByDay
               /\ BuiltSnap.this_month_kwh = CostKwh

\* both feeds answered with series of the same, non-zero length and the cost
\* series is the one published
C13_Witness ==
    /\ Built /\ ~Failed("usage") /\ ~Failed("cost")
    /\ Len(CostByDay.v) = Len(UsageByDay.v) /\ Len(CostByDay.v) >= 1
    /\ BuiltSnap.this_month_by_day = CostByDay
    /\ BuiltSnap.this_month_kwh = CostKwh

\* C14: both feeds available and the usage series strictly longer: the
\* merged series has the length of the usage series, at every index its
\* date and kwh, below the length of the cost series the cost of the cost
\* series at that index, the usage record as it is from there on; the kwh
\* total is the usage feed's.
C14_MergeOntoUsage ==
    (Built /\ ~Failed("usage") /\ ~Failed("cost") /\ Len(UsageByDay.v) > Len(CostByDay.v))
        => /\ BuiltSnap.this_month_kwh = UsageKwh
           /\ BuiltSnap.this_month_by_day.st = "value"
           /\ Len(BuiltSnap.this_month_by_day.v) = Len(UsageByDay.v)
           /\ \A i \in 1..Len(UsageByDay.v) :
                LET merged == BuiltSnap.this_month_by_day.v[i]
                IN  /\ merged.date = UsageByDay.v[i].date
                    /\ merged.kwh = UsageByDay.v[i].kwh
                    /\ i <= Len(CostByDay.v) => merged.cost = CostByDay.v[i].cost
                    /\ i > Len(CostByDay.v) => merged = UsageByDay.v[i]

\* a usage series of two days merged with a cost series of one
C14_Witness ==
    /\ Built /\ ~Failed("usage") /\ ~Failed("cost")
    /\ Len(UsageByDay.v) = 2 /\ Len(CostByDay.v) = 1
    /\ BuiltSnap.this_month_by_day.v[1].cost = CostByDay.v[1].cost
    /\ BuiltSnap.this_month_by_day.v[2].cost = Absent

LatestUnavailable ==
    /\ BuiltSnap.latest_day_kwh = STATE_UNAVAILABLE
    /\ BuiltSnap.latest_day_cost = STATE_UNAVAILABLE
    /\ BuiltSnap.latest_day_date = STATE_UNAVAILABLE

\* the published series is there and has a day
HasDay(by_day) == by_day.st = "value" /\ Len(by_day.v) >= 1

\* C15: latest-day fallback order: the last element of the merged
\* this-month series when that is available and non-empty; otherwise the
\* last element of the last-month series fetched in this cycle, when
\* non-empty, with cost "unknown"; otherwise all three fields unavailable.
C15_LatestDayFallback ==
    Built =>
        IF HasDay(BuiltSnap.this_month_by_day)
        THEN LET last == BuiltSnap.this_month_by_day.v[Len(BuiltSnap.this_month_by_day.v)]
             IN  /\ BuiltSnap.latest_day_kwh = Val(last.kwh)
                 /\ BuiltSnap.latest_day_date = Val(last.date)
        ELSE IF HasDay(BuiltSnap.last_month_by_day)
        THEN LET last == BuiltSnap.last_month_by_day.v[Len(BuiltSnap.last_month_by_day.v)]
             IN  /\ "last_month" \in {threads[1].calls[i] : i \in 1..Len(threads[1].calls)}
                 /\ BuiltSnap.last_month_by_day = remote.last_month.ret[2]
                 /\ BuiltSnap.latest_day_kwh = Val(last.kwh)
                 /\ BuiltSnap.latest_day_date = Val(last.date)
                 /\ BuiltSnap.latest_day_cost = STATE_UNKNOWN
        ELSE LatestUnavailable

\* this month has no day yet and the latest day is the second of last month's
C15_Witness ==
    /\ Built
    /\ BuiltSnap.this_month_by_day = Val(<<>>)
    /\ HasDay(BuiltSnap.last_month_by_day) /\ Len(BuiltSnap.last_month_by_day.v) = 2
    /\ BuiltSnap.latest_day_date = Val(Date("last", 2))
    /\ BuiltSnap.latest_day_cost = STATE_UNKNOWN

\* C16: when the merged this-month series is available and non-empty and its
\* last element has a cost, latest-day cost is that cost, whatever its
\* value; it is "unknown" only when the last element has no cost.
C16_LatestDayCostIsLastCost ==
    (Built /\ HasDay(BuiltSnap.this_month_by_day))
        => LET last == BuiltSnap.this_month_by_day.v[Len(BuiltSnap.this_month_by_day.v)]
           IN  IF last.cost # Absent THEN BuiltSnap.latest_day_cost = last.cost
               ELSE BuiltSnap.latest_day_cost = STATE_UNKNOWN

\* what a ladder output is for a sub-field of the ladder
Extracted(x) == IF x = None THEN STATE_UNAVAILABLE ELSE x

\* C17: ladder extraction: the cost feed unavailable: all four ladder outputs
\* unavailable; otherwise each output is its own sub-field, or unavailable
\* when that sub-field is null, whatever the other three are.
C17_LadderExtraction ==
    Built =>
        IF Failed("cost")
        THEN /\ BuiltSnap.ladder_stage = STATE_UNAVAILABLE
             /\ BuiltSnap.ladder_remaining_kwh = STATE_UNAVAILABLE
             /\ BuiltSnap.ladder_tariff = STATE_UNAVAILABLE
             /\ BuiltSnap.ladder_start_date = STATE_UNAVAILABLE
        ELSE LET info == remote.cost.ret[3].v
             IN  /\ BuiltSnap.ladder_stage = Extracted(info.ladder)
                 /\ BuiltSnap.ladder_remaining_kwh = Extracted(info.remaining_kwh)
                 /\ BuiltSnap.ladder_tariff = Extracted(info.tariff)
                 /\ BuiltSnap.ladder_start_date = Extracted(info.start_date)

\* the ladder of the spec's example: remaining_kwh null, the others there
C17_Witness ==
    /\ Built /\ ~Failed("cost")
    /\ remote.cost.ret[3].v.remaining_kwh = None
    /\ BuiltSnap.ladder_stage = Val(2)
    /\ BuiltSnap.ladder_remaining_kwh = STATE_UNAVAILABLE
    /\ BuiltSnap.ladder_tariff = Val(58)
    /\ BuiltSnap.ladder_start_date = Val(Date("this", 1))

\* C18: last-month kwh and by-day are both "unchanged" exactly when
\* update_last_month is false and the merged this-month series is available
\* and non-empty; in every other case last month's usage is fetched in the
\* cycle and the two fields are what the fetch gave (its result, or
\* unavailable), never "unchanged".
C18_LastMonthUnchangedOrFetched ==
    Built =>
        LET fetched == "last_month" \in {threads[1].calls[i] : i \in 1..Len(threads[1].calls)}
        IN  IF ~threads[1].policy.update_last_month /\ HasDay(BuiltSnap.this_month_by_day)
            THEN /\ ~fetched
                 /\ BuiltSnap.last_month_kwh = STATE_UPDATE_UNCHANGED
                 /\ BuiltSnap.last_month_by_day = STATE_UPDATE_UNCHANGED
            ELSE /\ fetched
                 /\ BuiltSnap.last_month_kwh # STATE_UPDATE_UNCHANGED
                 /\ BuiltSnap.last_month_by_day # STATE_UPDATE_UNCHANGED
                 /\ IF Failed("last_month")
                    THEN /\ BuiltSnap.last_month_kwh = STATE_UNAVAILABLE
                         /\ BuiltSnap.last_month_by_day = STATE_UNAVAILABLE
                    ELSE /\ BuiltSnap.last_month_kwh = remote.last_month.ret[1]
                         /\ BuiltSnap.last_month_by_day = remote.last_month.ret[2]

\* the policy said not to update, this month's series is there and empty,
\* and last month was fetched
C18_Witness ==
    /\ Built /\ ~threads[1].policy.update_last_month
    /\ BuiltSnap.this_month_by_day = Val(<<>>)
    /\ BuiltSnap.last_month_by_day = remote.last_month.ret[2]
    /\ BuiltSnap.last_month_kwh.st = "value"

(***************************************************************************)
(* C19, C20: the deadline and the empty account list.                      *)
(***************************************************************************)
\* C19: the deadline of a cycle is the larger of the configured timeout and
\* the floor of 60 seconds, and the cycle warned exactly when the configured
\* timeout is below the floor.
C19_DeadlineIsFloored ==
    cycle # "Idle" =>
        /\ timeout >= update_timeout /\ timeout >= TIMEOUT_FLOOR
        /\ timeout \in {update_timeout, TIMEOUT_FLOOR}
        /\ warned <=> update_timeout < TIMEOUT_FLOOR

\* a cycle configured one second below the floor runs under the floor, warned
C19_Witness ==
    /\ cycle = "Fetching" /\ update_timeout = TIMEOUT_FLOOR - 1
    /\ timeout = TIMEOUT_FLOOR /\ warned

\* C20: with an empty account list no cycle ends Failed, the fetch neither
\* logs in nor issues a remote operation nor raises, and the snapshot map a
\* cycle returns is empty.
C20_EmptyAccountsNoOp ==
    accounts = 0 =>
        /\ cycle # "Failed"
        /\ \A t \in Slots :
            /\ threads[t].pc \in {"free", "start", "returned"}
            /\ threads[t].calls = <<>> /\ threads[t].data_ret = <<>>
        /\ data = NoData \/ data = Val(<<>>)

\* a cycle over no account has ended Succeeded with an empty snapshot map
C20_Witness == accounts = 0 /\ cycle = "Succeeded" /\ data = Val(<<>>) /\ awaited = 0

(***************************************************************************)
(* C23: the first cycle of a January day.                                  *)
(***************************************************************************)
\* C23: in the first five days of January the first cycle to read the date
\* on a calendar day (the awaited one, no other fetch in flight) sets
\* update_last_year, whatever earlier cycles left in the day marker.
C23_FirstCycleOfDayFetchesLastYear ==
    [][\A t \in Slots :
        (/\ Decides(t) /\ t = awaited
         /\ \A u \in Slots \ {t} : threads[u].pc = "free"
         /\ ~read_today /\ now.month = JANUARY /\ now.day <= FIRST_DAYS)
            => threads'[t].policy.update_last_year]_vars

(***************************************************************************)
(* C24: where "unchanged" can stand in a published snapshot.               *)
(***************************************************************************)
LastYearFields == {"last_year_kwh", "last_year_cost", "last_year_by_month"}

LastMonthFields == {"last_month_kwh", "last_month_by_day"}

\* the fields of the group are all "unchanged" or none of them is
AllOrNoneUnchanged(snap, group) ==
    \/ \A f \in group : snap[f] = STATE_UPDATE_UNCHANGED
    \/ \A f \in group : snap[f] # STATE_UPDATE_UNCHANGED

\* C24: in every published snapshot "unchanged" stands only on the last-year
\* fields and the last-month fields, each of the two groups is wholly
\* "unchanged" or not at all, and no other field is ever "unchanged".
C24_UnchangedOnlyOnPastGroups ==
    data # NoData =>
        \A a \in 1..Len(data.v) :
            /\ \A f \in SnapshotFields \ (LastYearFields \cup LastMonthFields) :
                    data.v[a][f] # STATE_UPDATE_UNCHANGED
            /\ AllOrNoneUnchanged(data.v[a], LastYearFields)
            /\ AllOrNoneUnchanged(data.v[a], LastMonthFields)

\* a published snapshot with last year "unchanged" and last month fetched
C24_Witness ==
    /\ data # NoData /\ Len(data.v) = 1
    /\ \A f \in LastYearFields : data.v[1][f] = STATE_UPDATE_UNCHANGED
    /\ \A f \in LastMonthFields : data.v[1][f].st = "value"

(***************************************************************************)
(* CSGBaseSensor: one sensor of account 1 taken alone, over the snapshot   *)
(* maps the coordinator publishes.                                         *)
(***************************************************************************)
\* the sensors of an account: entity_suffix |-> extra_state_attributes_key
\* ("" for a sensor without)
SensorAttrKey ==
    [bal |-> "", arr |-> "", yesterday_kwh |-> "",
     latest_day_kwh |-> "latest_day_date", latest_day_cost |-> "latest_day_date",
     this_year_kwh |-> "this_year_by_month", this_year_cost |-> "",
     this_month_kwh |-> "this_month_by_day", this_month_cost |-> "this_month_by_day",
     ladder_stage |-> "ladder_start_date", ladder_remaining_kwh |-> "",
     ladder_tariff |-> "",
     last_year_kwh |-> "last_year_by_month", last_year_cost |-> "",
     last_month_kwh |-> "last_month_by_day"]

\* _attr_extra_state_attributes = {}
NoAttributes == [st |-> "empty"]

\* nothing written to the host yet
NoWrite == [st |-> "none"]

\* the answers of a later cycle: every value differs from RespAllOk's
RespLater ==
    [bal_arr |-> Ok(<<Val(14), Val(15)>>), yesterday |-> Ok(Val(16)),
     this_year |-> Ok(<<Val(24), Val(25), Val(26)>>),
     usage |-> Ok(<<Val(2 * FeedKwh.usage), Val(UsageSeries("this", 2))>>),
     cost |-> Ok(<<Val(52), Val(2 * FeedKwh.cost),
                   Val([ladder |-> Val(3), remaining_kwh |-> Val(41), tariff |-> Val(59),
                        start_date |-> Val(Date("this", 2))]),
                   Val(CostSeries(<<3, 3>>))>>),
     last_year |-> Ok(<<Val(34), Val(35), Val(36)>>),
     last_month |-> Ok(<<Val(2 * FeedKwh.usage), Val(UsageSeries("last", 2))>>)]

\* every remote operation fails with a remote-API error
RespAllFailed == [op \in DOMAIN RespAllOk |-> Raises("CSGAPIError")]

\* the snapshot maps a cycle publishes for the one account
PublishedMaps ==
    {Val(<<FetchAccount(policy, r).snap>>) :
        policy \in {BothTrue, LastMonthOnly, NoPolicy},
        r \in {RespAllOk, RespLater, RespAllFailed}}

\* lines 191-205: the sensor as constructed (available by default), for each
\* of the sensors of lines 91-176
InitSensor ==
    /\ now = [month |-> JANUARY, day |-> FIRST_DAYS]
    /\ marker = NoMarker
    /\ accounts = 1
    /\ threads = [t \in Slots |-> Free]
    /\ awaited = 0
    /\ cycle = "Idle"
    /\ reason = ""
    /\ data = NoData
    /\ remote = AnyAnswer
    /\ ly_today = 0
    /\ update_timeout = TIMEOUT_FLOOR
    /\ timeout = 0
    /\ warned = FALSE
    /\ safe_fetch = NoCall
    /\ read_today = FALSE
    /\ \E suffix \in DOMAIN SensorAttrKey :
        sensor = [pc |-> "idle", account_number |-> 1, entity_suffix |-> suffix,
                  extra_state_attributes_key |-> SensorAttrKey[suffix],
                  available |-> TRUE, native_value |-> None,
                  attributes |-> NoAttributes, host |-> NoWrite, wrote |-> FALSE]

\* async_write_ha_state(): the host gets the sensor as it is now
WriteHaState(s) ==
    [s EXCEPT !.host = [available |-> s.available, native_value |-> s.native_value,
                        attributes |-> s.attributes],
              !.wrote = TRUE]

\* (mutant) the "unchanged" sentinel is not skipped but stored like a value
HandleUpdateNoSkip(s, d) ==
    LET s0 == [s EXCEPT !.pc = "idle", !.wrote = FALSE]
    IN  IF d = NoData \/ Len(d.v) < s.account_number
        THEN WriteHaState([s0 EXCEPT !.available = FALSE])
        ELSE LET account_data == d.v[s.account_number]
                 new_native_value == account_data[s.entity_suffix]
             IN  IF new_native_value = STATE_UNAVAILABLE
                 THEN [WriteHaState(s0) EXCEPT !.available = FALSE]
                 ELSE WriteHaState([s0 EXCEPT !.available = TRUE,
                                              !.native_value = new_native_value])

\* lines 229-288: _handle_coordinator_update on sensor s with coordinator.data d
HandleUpdate(s, d) ==
    LET s0 == [s EXCEPT !.pc = "idle", !.wrote = FALSE]
    IN  IF d = NoData \/ Len(d.v) = 0
        THEN WriteHaState([s0 EXCEPT !.available = FALSE])
        ELSE IF Len(d.v) < s.account_number
        THEN WriteHaState([s0 EXCEPT !.available = FALSE])
        ELSE LET account_data == d.v[s.account_number]
                 new_native_value == account_data[s.entity_suffix]
                 key == s.extra_state_attributes_key
             IN  IF new_native_value = None
                 THEN WriteHaState([s0 EXCEPT !.available = FALSE])
                 ELSE IF new_native_value = STATE_UNAVAILABLE
                 THEN [WriteHaState(s0) EXCEPT !.available = FALSE]
                 ELSE IF new_native_value = STATE_UPDATE_UNCHANGED
                 THEN [s0 EXCEPT !.available = TRUE]
                 ELSE WriteHaState(
                        [s0 EXCEPT !.available = TRUE,
                                   !.native_value = new_native_value,
                                   !.attributes =
                                        IF key # ""
                                        THEN [st |-> "dict", key |-> key,
                                              value |-> account_data[key]]
                                        ELSE @])

\* a cycle ends and the coordinator calls its listeners: with a new snapshot
\* map after a Succeeded cycle, with the data it had after a Failed one
CoordinatorUpdate ==
    /\ sensor.pc = "idle"
    /\ \/ data' \in PublishedMaps
       \/ data' = data
    /\ sensor' = [sensor EXCEPT !.pc = "update"]
    /\ UNCHANGED <<now, marker, accounts, threads, awaited, cycle, reason, remote, ly_today,
                   update_timeout, timeout, warned, safe_fetch, read_today>>

HandleCoordinatorUpdate ==
    /\ sensor.pc = "update"
    /\ sensor' = HandleUpdate(sensor, data)
    /\ UNCHANGED <<now, marker, accounts, threads, awaited, cycle, reason, data, remote,
                   ly_today, update_timeout, timeout, warned, safe_fetch, read_today>>

NextSensor ==
    \/ CoordinatorUpdate
    \/ HandleCoordinatorUpdate

SpecSensor == InitSensor /\ [][NextSensor]_vars

\* the value the update delivers for the sensor's field
Delivered == data.v[sensor.account_number][sensor.entity_suffix]

\* the step is a run of _handle_coordinator_update
Handles == sensor.pc = "update" /\ sensor'.pc = "idle"

\* C21: an update that delivers "unchanged" for the sensor's field leaves
\* the sensor's native value and extra state attributes as they were; the
\* sentinel is never the sensor's native value.
C21_UnchangedRetainsValue ==
    [][/\ (Handles /\ data # NoData /\ Delivered = STATE_UPDATE_UNCHANGED)
            => /\ sensor'.native_value = sensor.native_value
               /\ sensor'.attributes = sensor.attributes
       /\ sensor'.native_value # STATE_UPDATE_UNCHANGED]_vars

\* the last-year kwh sensor has handled "unchanged" and keeps the value and
\* the by-month attributes of an earlier update
C21_Witness ==
    /\ sensor.pc = "idle" /\ sensor.entity_suffix = "last_year_kwh"
    /\ data # NoData /\ Delivered = STATE_UPDATE_UNCHANGED
    /\ sensor.native_value = Val(32)
    /\ sensor.attributes.st = "dict" /\ ~sensor.wrote

\* C22: an update that delivers "unavailable" for the sensor's field writes
\* to the host a state that is not available, whether the sensor was
\* available before the update or not.
C22_UnavailableWrittenAsUnavailable ==
    (sensor.pc = "idle" /\ data # NoData /\ Delivered = STATE_UNAVAILABLE)
        => sensor.wrote /\ ~sensor.host.available

====
